---- MODULE Spec2Model ----
(***************************************************************************)
(* A model of the DCS store (src/src/lib.rs): five maps, each behind its   *)
(* own std::sync::RwLock, and the fifteen operations of `impl DCS`.        *)
(*                                                                         *)
(* A call of an operation by a thread goes through                         *)
(*   idle --Call--> wait --Acquire--> locked --Run_<op>--> ret --Return--> *)
(*   idle                                                                  *)
(* `wait` is the thread blocked in read()/write(), `locked` is the thread  *)
(* holding the guard, `ret` is the thread holding the computed Ok(..)      *)
(* (or the Err carrying the guard) right before the function returns and   *)
(* the guard is dropped. A thread in list_push_multi is in `extend` while  *)
(* it appends; a thread that was returned the PoisonError is in `failed`   *)
(* until it drops it; a thread that panicked is in `panicked` for good.    *)
(***************************************************************************)
EXTENDS Integers, Sequences, FiniteSets, TLC

(* ------------------------------ bounds --------------------------------- *)

\* Threads calling into the store concurrently.
NumThreads == 2

\* Calls made in one run, over all threads.
MaxCalls == 3

\* Threads of the scenario in which every thread pushes once to one list.
NumPushers == 3

\* Longest vector handed to list_push_multi by a concurrent caller.
MaxMulti == 2

\* Longest list built by the sequential scenarios.
MaxLen == 3

\* Calls a sequential caller makes before it starts on its script.
MaxPrefix == 2

Threads == 1 .. NumThreads

NoThread == 0

(* ------------------------------ strings -------------------------------- *)

\* The strings of the model, in Rust's (byte-wise) String order.
StrOrder == <<"", "a", "b", "c">>

Strings == {StrOrder[n] : n \in DOMAIN StrOrder}

StrRank(s) == CHOOSE n \in DOMAIN StrOrder : StrOrder[n] = s

\* a < b on String.
StrLess(a, b) == StrRank(a) < StrRank(b)

Keys == {"k1", "k2"}

\* Values, hash fields and set / sorted-set members of the concurrent runs.
Values == {"", "a"}

\* f64 scores, as the integers 1.0 and 2.0.
Scores == {1, 2}

\* The sequences of up to n elements of S.
RECURSIVE SeqsOver(_, _)
SeqsOver(S, n) ==
  IF n = 0 THEN {<<>>}
  ELSE LET shorter == SeqsOver(S, n - 1)
       IN  shorter \cup {Append(x, v) : x \in {y \in shorter : Len(y) = n - 1}, v \in S}

(* ------------------------------ results -------------------------------- *)

\* Result<_, PoisonError<_>> values; one record shape for every operation.
Res(tag, s, n, b) == [tag |-> tag, s |-> s, n |-> n, b |-> b]

NoResult == Res("-", "", 0, FALSE)

\* Ok(())
OkUnit == Res("Ok(())", "", 0, FALSE)

\* Ok(None)
OkNone == Res("Ok(None)", "", 0, FALSE)

\* Ok(Some(s)) of Option<String>
OkSome(s) == Res("Ok(Some)", s, 0, FALSE)

\* Ok(Some(x)) of Option<f64>
OkScore(x) == Res("Ok(Some(f64))", "", x, FALSE)

\* Ok(n) of usize
OkLen(n) == Res("Ok(usize)", "", n, FALSE)

\* Ok(b) of bool
OkBool(b) == Res("Ok(bool)", "", 0, b)

\* Err(PoisonError { guard })
ErrPoison == Res("Err(PoisonError)", "", 0, FALSE)

(* ----------------------------- containers ------------------------------ *)

\* HashMap::new(), Vec::new(), BTreeMap::new(): nothing stored.
Empty == <<>>

\* HashMap::insert(key, value): insert or overwrite.
MapInsert(m, key, value) ==
  [x \in DOMAIN m \cup {key} |-> IF x = key THEN value ELSE m[x]]

\* HashMap::remove(key)
MapRemove(m, key) ==
  IF DOMAIN m \ {key} = {} THEN Empty ELSE [x \in DOMAIN m \ {key} |-> m[x]]

\* A faulty variant: a fresh container on every call, whatever the map holds.
EntryAlwaysFresh(m, key, fresh) == MapInsert(m, key, fresh)

\* HashMap::entry(key).or_insert_with(new): the entry is created when absent
\* and left as it is when present.
EntryOrInsert(m, key, fresh) ==
  IF key \in DOMAIN m THEN m ELSE MapInsert(m, key, fresh)

\* Vec::push(value): at the tail.
VecPush(list, value) == Append(list, value)

\* A faulty variant: the values are appended last first.
RECURSIVE VecExtendReversed(_, _)
VecExtendReversed(list, values) ==
  IF values = <<>> THEN list
  ELSE VecPush(VecExtendReversed(list, Tail(values)), Head(values))

\* Vec::extend(values): each value of the input pushed in turn.
RECURSIVE VecExtend(_, _)
VecExtend(list, values) ==
  IF values = <<>> THEN list
  ELSE VecExtend(VecPush(list, Head(values)), Tail(values))

\* Vec::pop(): the list without its tail-most value.
VecPopped(list) == SubSeq(list, 1, Len(list) - 1)

\* BTreeMap<String, f64>: the entries <<member, score>> in the order the
\* map iterates them, which is the order of its keys, the member strings.
BTreeMembers(z) == {z[n][1] : n \in DOMAIN z}

BTreeGet(z, member) ==
  LET n == CHOOSE x \in DOMAIN z : z[x][1] = member IN z[n][2]

\* BTreeMap::remove(member)
BTreeRemove(z, member) == SelectSeq(z, LAMBDA e : e[1] # member)

\* A faulty variant: the entry is put beside the member's old one, as in a
\* multimap.
BTreeInsertBeside(z, member, score) ==
  SelectSeq(z, LAMBDA e : ~StrLess(member, e[1]))
    \o <<(<<member, score>>)>>
    \o SelectSeq(z, LAMBDA e : StrLess(member, e[1]))

\* BTreeMap::insert(member, score): the entry replaces the member's old one
\* and sits at the member's place in key order.
BTreeInsert(z, member, score) ==
  SelectSeq(z, LAMBDA e : StrLess(e[1], member))
    \o <<(<<member, score>>)>>
    \o SelectSeq(z, LAMBDA e : StrLess(member, e[1]))

(* ------------------------- the operations of DCS ----------------------- *)
(* Each operation as a function of the store's five maps d and the call's  *)
(* arguments: the maps it leaves and the value it returns, as its body     *)
(* computes them under the guard.                                          *)

\* DCS::new()
NewDCS ==
  [store |-> Empty, list_store |-> Empty, hash_store |-> Empty,
   set_store |-> Empty, zset_store |-> Empty]

Out(d, ret) == [dcs |-> d, ret |-> ret]

\* A faulty variant: one namespace for all five types, so that a scalar
\* written at a key replaces what the other collections hold there.
set_one_keyspace(d, key, value) ==
  Out([store |-> MapInsert(d.store, key, value),
       list_store |-> MapRemove(d.list_store, key),
       hash_store |-> MapRemove(d.hash_store, key),
       set_store |-> MapRemove(d.set_store, key),
       zset_store |-> MapRemove(d.zset_store, key)], OkUnit)

\* A faulty variant: the first value written at a key is kept.
set_keeps_first(d, key, value) ==
  Out([d EXCEPT !.store = EntryOrInsert(@, key, value)], OkUnit)

set(d, key, value) ==
  Out([d EXCEPT !.store = MapInsert(@, key, value)], OkUnit)

get(d, key) ==
  Out(d, IF key \in DOMAIN d.store THEN OkSome(d.store[key]) ELSE OkNone)

\* A faulty variant: the length is taken before the value is pushed.
list_push_len_before(d, key, value) ==
  LET entered == EntryOrInsert(d.list_store, key, Empty)
      list == VecPush(entered[key], value)
  IN  Out([d EXCEPT !.list_store = MapInsert(entered, key, list)], OkLen(Len(entered[key])))

list_push(d, key, value) ==
  LET entered == EntryOrInsert(d.list_store, key, Empty)
      list == VecPush(entered[key], value)
  IN  Out([d EXCEPT !.list_store = MapInsert(entered, key, list)], OkLen(Len(list)))

list_push_multi(d, key, values) ==
  LET entered == EntryOrInsert(d.list_store, key, Empty)
      list == VecExtend(entered[key], values)
  IN  Out([d EXCEPT !.list_store = MapInsert(entered, key, list)], OkLen(Len(list)))

\* A faulty variant: a list left empty by the pop is removed from the map.
list_pop_prunes(d, key) ==
  IF key \in DOMAIN d.list_store
  THEN LET list == d.list_store[key]
       IN  IF list = <<>>
           THEN Out(d, OkNone)
           ELSE Out([d EXCEPT !.list_store =
                       IF Len(list) = 1 THEN MapRemove(@, key)
                       ELSE MapInsert(@, key, VecPopped(list))],
                    OkSome(list[Len(list)]))
  ELSE Out(d, OkNone)

\* A faulty variant: the value at the head is taken, as from a queue.
list_pop_head(d, key) ==
  IF key \in DOMAIN d.list_store
  THEN LET list == d.list_store[key]
       IN  IF list = <<>>
           THEN Out(d, OkNone)
           ELSE Out([d EXCEPT !.list_store = MapInsert(@, key, Tail(list))], OkSome(Head(list)))
  ELSE Out(d, OkNone)

list_pop(d, key) ==
  IF key \in DOMAIN d.list_store
  THEN LET list == d.list_store[key]
       IN  IF list = <<>>
           THEN Out(d, OkNone)
           ELSE Out([d EXCEPT !.list_store = MapInsert(@, key, VecPopped(list))],
                    OkSome(list[Len(list)]))
  ELSE Out(d, OkNone)

\* A faulty variant: the list is looked up with entry(key).or_insert_with, which
\* creates it when absent.
list_len_entry(d, key) ==
  LET entered == EntryOrInsert(d.list_store, key, Empty)
  IN  Out([d EXCEPT !.list_store = entered], OkLen(Len(entered[key])))

list_len(d, key) ==
  Out(d, IF key \in DOMAIN d.list_store THEN OkLen(Len(d.list_store[key])) ELSE OkLen(0))

hash_set(d, key, field, value) ==
  LET entered == EntryOrInsert(d.hash_store, key, Empty)
  IN  Out([d EXCEPT !.hash_store = MapInsert(entered, key, MapInsert(entered[key], field, value))],
          OkUnit)

\* A faulty variant: a hash that is missing yields the scalar stored at the key.
hash_get_falls_back(d, key, field) ==
  IF key \in DOMAIN d.hash_store
  THEN Out(d, IF field \in DOMAIN d.hash_store[key]
              THEN OkSome(d.hash_store[key][field]) ELSE OkNone)
  ELSE Out(d, IF key \in DOMAIN d.store THEN OkSome(d.store[key]) ELSE OkNone)

hash_get(d, key, field) ==
  IF key \in DOMAIN d.hash_store
  THEN Out(d, IF field \in DOMAIN d.hash_store[key]
              THEN OkSome(d.hash_store[key][field]) ELSE OkNone)
  ELSE Out(d, OkNone)

\* A faulty variant: the whole hash at the key is removed, whatever the field.
hash_del_whole_hash(d, key, field) ==
  Out([d EXCEPT !.hash_store = MapRemove(@, key)], OkBool(key \in DOMAIN d.hash_store))

hash_del(d, key, field) ==
  IF key \in DOMAIN d.hash_store
  THEN LET hash == d.hash_store[key]
       IN  Out([d EXCEPT !.hash_store = MapInsert(@, key, MapRemove(hash, field))],
               OkBool(field \in DOMAIN hash))
  ELSE Out(d, OkBool(FALSE))

\* A faulty variant: the set at the key is replaced by one holding the value alone.
set_add_new_set(d, key, value) ==
  Out([d EXCEPT !.set_store = MapInsert(@, key, {value})], OkUnit)

set_add(d, key, value) ==
  LET entered == EntryOrInsert(d.set_store, key, {})
  IN  Out([d EXCEPT !.set_store = MapInsert(entered, key, entered[key] \cup {value})], OkUnit)

set_is_member(d, key, value) ==
  IF key \in DOMAIN d.set_store
  THEN Out(d, OkBool(value \in d.set_store[key]))
  ELSE Out(d, OkBool(FALSE))

set_remove(d, key, value) ==
  IF key \in DOMAIN d.set_store
  THEN LET members == d.set_store[key]
       IN  Out([d EXCEPT !.set_store = MapInsert(@, key, members \ {value})],
               OkBool(value \in members))
  ELSE Out(d, OkBool(FALSE))

zset_add(d, key, score, value) ==
  LET entered == EntryOrInsert(d.zset_store, key, Empty)
  IN  Out([d EXCEPT !.zset_store = MapInsert(entered, key, BTreeInsert(entered[key], value, score))],
          OkUnit)

zset_score(d, key, value) ==
  IF key \in DOMAIN d.zset_store
  THEN Out(d, IF value \in BTreeMembers(d.zset_store[key])
              THEN OkScore(BTreeGet(d.zset_store[key], value)) ELSE OkNone)
  ELSE Out(d, OkNone)

zset_remove(d, key, value) ==
  IF key \in DOMAIN d.zset_store
  THEN LET zset == d.zset_store[key]
       IN  Out([d EXCEPT !.zset_store = MapInsert(@, key, BTreeRemove(zset, value))],
               OkBool(value \in BTreeMembers(zset)))
  ELSE Out(d, OkBool(FALSE))

(* ------------------------------- state --------------------------------- *)

VARIABLES
  dcs,       \* the five maps of struct DCS
  lock,      \* per map, its RwLock: the writer, the readers, the poison flag
  pc,        \* per thread, where it is in its call
  op,        \* per thread, the operation it is in and its arguments
  result,    \* per thread in "ret", the value its call returns
  ext,       \* per thread in list_push_multi, how many values it has appended
  ncalls,    \* calls made so far
  snap,      \* history: per thread holding a guard, the map as it acquired it
  last_set,  \* history: per key, the value of the latest set
  written,   \* history: per collection, the keys a call has stored something at
  scen       \* the caller's script in the sequential scenarios

vars == <<dcs, lock, pc, op, result, ext, ncalls, snap, last_set, written, scen>>

\* The fields of struct DCS.
Colls == {"store", "list_store", "hash_store", "set_store", "zset_store"}

\* The field of DCS an operation locks.
Coll(name) ==
  CASE name \in {"set", "get"} -> "store"
    [] name \in {"list_push", "list_push_multi", "list_pop", "list_len"} -> "list_store"
    [] name \in {"hash_set", "hash_get", "hash_del"} -> "hash_store"
    [] name \in {"set_add", "set_is_member", "set_remove"} -> "set_store"
    [] name \in {"zset_add", "zset_score", "zset_remove"} -> "zset_store"

\* The operations that take the guard with write(); the others take it with read().
Writers ==
  {"set", "list_push", "list_push_multi", "list_pop", "hash_set", "hash_del",
   "set_add", "set_remove", "zset_add", "zset_remove"}

\* The operations that store something at their key.
Storing == {"set", "list_push", "list_push_multi", "hash_set", "set_add", "zset_add"}

\* One map of d.
Field(d, c) ==
  CASE c = "store" -> d.store
    [] c = "list_store" -> d.list_store
    [] c = "hash_store" -> d.hash_store
    [] c = "set_store" -> d.set_store
    [] c = "zset_store" -> d.zset_store

\* d with map c replaced by m.
WithField(d, c, m) ==
  CASE c = "store" -> [d EXCEPT !.store = m]
    [] c = "list_store" -> [d EXCEPT !.list_store = m]
    [] c = "hash_store" -> [d EXCEPT !.hash_store = m]
    [] c = "set_store" -> [d EXCEPT !.set_store = m]
    [] c = "zset_store" -> [d EXCEPT !.zset_store = m]

\* A call: the operation's name and its arguments (those it does not take are "" / 0 / <<>>).
Op(name, key, field, value, score, values) ==
  [name |-> name, key |-> key, field |-> field, value |-> value, score |-> score,
   values |-> values]

NoOp == Op("-", "", "", "", 0, <<>>)

\* The calls of one collection, a call's arguments drawn from the given sets.
ScalarCalls(ks, vs) ==
  {Op("set", k, "", v, 0, <<>>) : k \in ks, v \in vs}
    \cup {Op("get", k, "", "", 0, <<>>) : k \in ks}

ListCalls(ks, vs, vecs) ==
  {Op("list_push", k, "", v, 0, <<>>) : k \in ks, v \in vs}
    \cup {Op("list_push_multi", k, "", "", 0, vec) : k \in ks, vec \in vecs}
    \cup {Op(n, k, "", "", 0, <<>>) : n \in {"list_pop", "list_len"}, k \in ks}

HashCalls(ks, fs, vs) ==
  {Op("hash_set", k, f, v, 0, <<>>) : k \in ks, f \in fs, v \in vs}
    \cup {Op(n, k, f, "", 0, <<>>) : n \in {"hash_get", "hash_del"}, k \in ks, f \in fs}

SetCalls(ks, vs) ==
  {Op(n, k, "", v, 0, <<>>) : n \in {"set_add", "set_is_member", "set_remove"},
                              k \in ks, v \in vs}

ZsetCalls(ks, vs, xs) ==
  {Op("zset_add", k, "", v, x, <<>>) : k \in ks, v \in vs, x \in xs}
    \cup {Op(n, k, "", v, 0, <<>>) : n \in {"zset_score", "zset_remove"}, k \in ks, v \in vs}

\* The calls of the runs over all five collections.
Calls ==
  ScalarCalls(Keys, Values) \cup ListCalls(Keys, Values, {<<"", "a">>})
    \cup HashCalls(Keys, {"a"}, {"a"}) \cup SetCalls(Keys, {"a"})
    \cup ZsetCalls(Keys, {"a"}, Scores)

\* The operation o on the maps d, whole.
Apply(d, o) ==
  CASE o.name = "set" -> set(d, o.key, o.value)
    [] o.name = "get" -> get(d, o.key)
    [] o.name = "list_push" -> list_push(d, o.key, o.value)
    [] o.name = "list_push_multi" -> list_push_multi(d, o.key, o.values)
    [] o.name = "list_pop" -> list_pop(d, o.key)
    [] o.name = "list_len" -> list_len(d, o.key)
    [] o.name = "hash_set" -> hash_set(d, o.key, o.field, o.value)
    [] o.name = "hash_get" -> hash_get(d, o.key, o.field)
    [] o.name = "hash_del" -> hash_del(d, o.key, o.field)
    [] o.name = "set_add" -> set_add(d, o.key, o.value)
    [] o.name = "set_is_member" -> set_is_member(d, o.key, o.value)
    [] o.name = "set_remove" -> set_remove(d, o.key, o.value)
    [] o.name = "zset_add" -> zset_add(d, o.key, o.score, o.value)
    [] o.name = "zset_score" -> zset_score(d, o.key, o.value)
    [] o.name = "zset_remove" -> zset_remove(d, o.key, o.value)

(* ------------------------------- RwLock -------------------------------- *)

\* RwLock::new(..)
NewLock == [writer |-> NoThread, readers |-> {}, poisoned |-> FALSE]

\* A faulty variant: one lock for the whole store, so that write() waits for
\* every collection to be free.
CanWriteStoreFree(c) == \A x \in DOMAIN lock : lock[x].writer = NoThread /\ lock[x].readers = {}

\* A faulty variant: write() that does not wait for the lock to be free.
CanWriteAlways(c) == TRUE

\* write() returns once no thread holds the lock.
CanWrite(c) == lock[c].writer = NoThread /\ lock[c].readers = {}

\* A faulty variant: read() that does not wait for the writer to be done.
CanReadAlways(c) == TRUE

\* read() returns once no thread holds the lock for writing.
CanRead(c) == lock[c].writer = NoThread

\* A faulty variant: the poison flag is not looked at.
PoisonIgnored(c) == FALSE

\* read() and write() return Err(PoisonError) on a poisoned lock, which `?` returns.
Poisoned(c) == lock[c].poisoned

\* A faulty variant: the guard is forgotten (mem::forget) and the lock stays held.
ReleasedNever(c, t) == lock[c]

\* The lock c once thread t's guard is dropped.
Released(c, t) ==
  [lock[c] EXCEPT !.writer = IF @ = t THEN NoThread ELSE @, !.readers = @ \ {t}]

Init ==
  /\ dcs = NewDCS
  /\ lock = [c \in Colls |-> NewLock]
  /\ pc = [t \in Threads |-> "idle"]
  /\ op = [t \in Threads |-> NoOp]
  /\ result = [t \in Threads |-> NoResult]
  /\ ext = [t \in Threads |-> 0]
  /\ ncalls = 0
  /\ snap = [t \in Threads |-> Empty]
  /\ last_set = Empty
  /\ written = [c \in Colls |-> {}]
  /\ scen = Empty

(* ------------------------------ the steps ------------------------------ *)

\* A thread calls an operation, one of the calls in S.
CallFrom(t, S) ==
  /\ pc[t] = "idle"
  /\ \E o \in S : op' = [op EXCEPT ![t] = o]
  /\ pc' = [pc EXCEPT ![t] = "wait"]
  /\ ncalls' = ncalls + 1
  /\ UNCHANGED <<dcs, lock, result, ext, snap, last_set, written, scen>>

\* A call of any of the fifteen operations, while the run has calls left.
Call(t) ==
  /\ ncalls < MaxCalls
  /\ CallFrom(t, Calls)

\* self.<map>.write()? / self.<map>.read()?: the thread gets the guard, or the
\* PoisonError that carries it.
Acquire(t) ==
  /\ pc[t] = "wait"
  /\ LET c == Coll(op[t].name)
         w == op[t].name \in Writers
     IN  /\ IF w THEN CanWrite(c) ELSE CanRead(c)
         /\ lock' = [lock EXCEPT ![c] = IF w THEN [@ EXCEPT !.writer = t]
                                         ELSE [@ EXCEPT !.readers = @ \cup {t}]]
         /\ IF Poisoned(c)
            THEN /\ pc' = [pc EXCEPT ![t] = "ret"]
                 /\ result' = [result EXCEPT ![t] = ErrPoison]
                 /\ snap' = snap
            ELSE /\ pc' = [pc EXCEPT ![t] = "locked"]
                 /\ result' = result
                 /\ snap' = [snap EXCEPT ![t] = Field(dcs, c)]
  /\ UNCHANGED <<dcs, op, ext, ncalls, last_set, written, scen>>

\* The history after the call o has stored what it stores.
Stored(o) ==
  /\ last_set' = IF o.name = "set" THEN MapInsert(last_set, o.key, o.value) ELSE last_set
  /\ written' = IF o.name \in Storing
                THEN [written EXCEPT ![Coll(o.name)] = @ \cup {o.key}]
                ELSE written

(* The bodies run with the guard held. The body of list_push_multi, whose   *)
(* extend loops over the input, is taken one value at a time; the body of  *)
(* every other operation is one step.                                      *)

\* Thread t holds the guard and is about to run the body of operation name.
Locked(t, name) == pc[t] = "locked" /\ op[t].name = name

\* The body leaves the maps r.dcs and has the value r.ret to return.
Finish(t, r) ==
  /\ dcs' = r.dcs
  /\ result' = [result EXCEPT ![t] = r.ret]
  /\ pc' = [pc EXCEPT ![t] = "ret"]
  /\ Stored(op[t])
  /\ UNCHANGED <<lock, op, ext, ncalls, snap, scen>>

Run_set(t) ==
  /\ Locked(t, "set")
  /\ LET o == op[t] IN Finish(t, set(dcs, o.key, o.value))

Run_get(t) ==
  /\ Locked(t, "get")
  /\ LET o == op[t] IN Finish(t, get(dcs, o.key))

Run_list_push(t) ==
  /\ Locked(t, "list_push")
  /\ LET o == op[t] IN Finish(t, list_push(dcs, o.key, o.value))

Run_list_pop(t) ==
  /\ Locked(t, "list_pop")
  /\ LET o == op[t] IN Finish(t, list_pop(dcs, o.key))

Run_list_len(t) ==
  /\ Locked(t, "list_len")
  /\ LET o == op[t] IN Finish(t, list_len(dcs, o.key))

Run_hash_set(t) ==
  /\ Locked(t, "hash_set")
  /\ LET o == op[t] IN Finish(t, hash_set(dcs, o.key, o.field, o.value))

Run_hash_get(t) ==
  /\ Locked(t, "hash_get")
  /\ LET o == op[t] IN Finish(t, hash_get(dcs, o.key, o.field))

Run_hash_del(t) ==
  /\ Locked(t, "hash_del")
  /\ LET o == op[t] IN Finish(t, hash_del(dcs, o.key, o.field))

Run_set_add(t) ==
  /\ Locked(t, "set_add")
  /\ LET o == op[t] IN Finish(t, set_add(dcs, o.key, o.value))

Run_set_is_member(t) ==
  /\ Locked(t, "set_is_member")
  /\ LET o == op[t] IN Finish(t, set_is_member(dcs, o.key, o.value))

Run_set_remove(t) ==
  /\ Locked(t, "set_remove")
  /\ LET o == op[t] IN Finish(t, set_remove(dcs, o.key, o.value))

Run_zset_add(t) ==
  /\ Locked(t, "zset_add")
  /\ LET o == op[t] IN Finish(t, zset_add(dcs, o.key, o.score, o.value))

Run_zset_score(t) ==
  /\ Locked(t, "zset_score")
  /\ LET o == op[t] IN Finish(t, zset_score(dcs, o.key, o.value))

Run_zset_remove(t) ==
  /\ Locked(t, "zset_remove")
  /\ LET o == op[t] IN Finish(t, zset_remove(dcs, o.key, o.value))

\* list_push_multi, line 61: list_store.entry(key).or_insert_with(Vec::new)
Run_list_push_multi_entry(t) ==
  /\ pc[t] = "locked"
  /\ op[t].name = "list_push_multi"
  /\ dcs' = [dcs EXCEPT !.list_store = EntryOrInsert(@, op[t].key, Empty)]
  /\ pc' = [pc EXCEPT ![t] = "extend"]
  /\ ext' = [ext EXCEPT ![t] = 0]
  /\ Stored(op[t])
  /\ UNCHANGED <<lock, op, result, ncalls, snap, scen>>

\* list_push_multi, line 62: list.extend(values), one value of the input at a time
Run_list_push_multi_extend(t) ==
  /\ pc[t] = "extend"
  /\ ext[t] < Len(op[t].values)
  /\ dcs' = [dcs EXCEPT !.list_store[op[t].key] = VecPush(@, op[t].values[ext[t] + 1])]
  /\ ext' = [ext EXCEPT ![t] = @ + 1]
  /\ UNCHANGED <<lock, pc, op, result, ncalls, snap, last_set, written, scen>>

\* list_push_multi, line 63: Ok(list.len())
Run_list_push_multi_len(t) ==
  /\ pc[t] = "extend"
  /\ ext[t] = Len(op[t].values)
  /\ result' = [result EXCEPT ![t] = OkLen(Len(dcs.list_store[op[t].key]))]
  /\ pc' = [pc EXCEPT ![t] = "ret"]
  /\ ext' = [ext EXCEPT ![t] = 0]
  /\ UNCHANGED <<dcs, lock, op, ncalls, snap, last_set, written, scen>>

\* The function returns. An Ok(..) leaves the guard behind, which is dropped; an
\* Err(PoisonError) takes the guard with it to the caller.
Return(t) ==
  /\ pc[t] = "ret"
  /\ IF result[t] = ErrPoison
     THEN /\ pc' = [pc EXCEPT ![t] = "failed"]
          /\ UNCHANGED <<lock, op, result>>
     ELSE /\ pc' = [pc EXCEPT ![t] = "idle"]
          /\ lock' = [lock EXCEPT ![Coll(op[t].name)] = Released(Coll(op[t].name), t)]
          /\ op' = [op EXCEPT ![t] = NoOp]
          /\ result' = [result EXCEPT ![t] = NoResult]
  /\ snap' = [snap EXCEPT ![t] = Empty]
  /\ UNCHANGED <<dcs, ext, ncalls, last_set, written, scen>>

\* The caller drops the PoisonError it was returned, and the guard in it.
DropError(t) ==
  /\ pc[t] = "failed"
  /\ pc' = [pc EXCEPT ![t] = "idle"]
  /\ lock' = [lock EXCEPT ![Coll(op[t].name)] = Released(Coll(op[t].name), t)]
  /\ op' = [op EXCEPT ![t] = NoOp]
  /\ result' = [result EXCEPT ![t] = NoResult]
  /\ UNCHANGED <<dcs, ext, ncalls, snap, last_set, written, scen>>

\* A thread panics in the body of an operation: unwinding drops its guard, and
\* the drop of a write guard by a panicking thread poisons the lock.
Panic(t) ==
  /\ pc[t] \in {"locked", "extend"}
  /\ LET c == Coll(op[t].name)
     IN  lock' = [lock EXCEPT ![c] = [Released(c, t) EXCEPT
                     !.poisoned = @ \/ op[t].name \in Writers]]
  /\ pc' = [pc EXCEPT ![t] = "panicked"]
  /\ snap' = [snap EXCEPT ![t] = Empty]
  /\ ext' = [ext EXCEPT ![t] = 0]
  /\ UNCHANGED <<dcs, op, result, ncalls, last_set, written, scen>>

\* The operations' bodies.
RunBody(t) ==
  \/ Run_set(t) \/ Run_get(t)
  \/ Run_list_push(t) \/ Run_list_pop(t) \/ Run_list_len(t)
  \/ Run_list_push_multi_entry(t) \/ Run_list_push_multi_extend(t)
  \/ Run_list_push_multi_len(t)
  \/ Run_hash_set(t) \/ Run_hash_get(t) \/ Run_hash_del(t)
  \/ Run_set_add(t) \/ Run_set_is_member(t) \/ Run_set_remove(t)
  \/ Run_zset_add(t) \/ Run_zset_score(t) \/ Run_zset_remove(t)

\* Threads calling the fifteen operations concurrently, none of them panicking.
Next == \E t \in Threads : Call(t) \/ Acquire(t) \/ RunBody(t) \/ Return(t)

Spec == Init /\ [][Next]_vars

(* --------------- scenario: N threads push to one list ------------------ *)

Pushers == 1 .. NumPushers

Injections(S, T) == {f \in [S -> T] : \A a, b \in S : a # b => f[a] # f[b]}

\* A fresh store; the scenario fixes the list's key and a value per thread,
\* the values pairwise distinct.
InitPushers ==
  /\ dcs = NewDCS
  /\ lock = [c \in Colls |-> NewLock]
  /\ pc = [t \in Pushers |-> "idle"]
  /\ op = [t \in Pushers |-> NoOp]
  /\ result = [t \in Pushers |-> NoResult]
  /\ ext = [t \in Pushers |-> 0]
  /\ ncalls = 0
  /\ snap = [t \in Pushers |-> Empty]
  /\ last_set = Empty
  /\ written = [c \in Colls |-> {}]
  /\ \E k \in Keys, f \in Injections(Pushers, Strings) :
       scen = [key |-> k, value |-> f, called |-> {}]

\* Thread t makes its one call, list_push(key, value[t]).
CallPush(t) ==
  /\ pc[t] = "idle"
  /\ t \notin scen.called
  /\ op' = [op EXCEPT ![t] = Op("list_push", scen.key, "", scen.value[t], 0, <<>>)]
  /\ pc' = [pc EXCEPT ![t] = "wait"]
  /\ scen' = [scen EXCEPT !.called = @ \cup {t}]
  /\ ncalls' = ncalls + 1
  /\ UNCHANGED <<dcs, lock, result, ext, snap, last_set, written>>

NextPushers ==
  \E t \in Pushers : CallPush(t) \/ Acquire(t) \/ Run_list_push(t) \/ Return(t)

SpecPushers == InitPushers /\ [][NextPushers]_vars

\* Every pusher has made its call and the call has returned.
AllPushesReturned == scen.called = Pushers /\ \A t \in Pushers : pc[t] = "idle"

\* How many times value v occurs in list.
Occurrences(list, v) == Cardinality({n \in DOMAIN list : list[n] = v})

\* C1: once the N concurrent list_push calls on one key, of pairwise distinct
\* values, have all returned, the list at the key has length N and holds each
\* of the N values exactly once, however the calls interleaved.
C1_NoLostPush ==
  AllPushesReturned =>
    /\ scen.key \in DOMAIN dcs.list_store
    /\ Len(dcs.list_store[scen.key]) = NumPushers
    /\ \A t \in Pushers : Occurrences(dcs.list_store[scen.key], scen.value[t]) = 1

\* All calls have returned, and the last thread's value was pushed first.
C1_Witness ==
  /\ AllPushesReturned
  /\ dcs.list_store[scen.key][1] = scen.value[NumPushers]

(* ----------------------- concurrent runs on lists ----------------------- *)

\* Threads calling the four list operations concurrently, list_push_multi with
\* every vector of up to MaxMulti values.
CallList(t) ==
  /\ ncalls < MaxCalls
  /\ CallFrom(t, ListCalls(Keys, Values, SeqsOver(Values, MaxMulti)))

NextList ==
  \E t \in Threads :
    \/ CallList(t) \/ Acquire(t) \/ Return(t)
    \/ Run_list_push(t) \/ Run_list_pop(t) \/ Run_list_len(t)
    \/ Run_list_push_multi_entry(t) \/ Run_list_push_multi_extend(t)
    \/ Run_list_push_multi_len(t)

SpecList == Init /\ [][NextList]_vars

(* ------------------------------ the claims ------------------------------ *)

\* The map of thread t's operation as it is now, and as it was when t got the guard.
MapNow(t) == Field(dcs, Coll(op[t].name))

\* The operation of thread t done whole, at once, on the map as t acquired it.
Atomically(t) == Apply(WithField(dcs, Coll(op[t].name), snap[t]), op[t])

\* What every completed operation returns and leaves: the value and the map of
\* the operation done whole, at once, on the map as it was when the operation
\* got its guard; until its body runs, the map is still as it was acquired.
C2_AsIfAtomic ==
  \A t \in Threads :
    /\ pc[t] = "locked" => MapNow(t) = snap[t]
    /\ pc[t] = "ret" /\ result[t] # ErrPoison =>
         /\ result[t] = Atomically(t).ret
         /\ MapNow(t) = Field(Atomically(t).dcs, Coll(op[t].name))

\* A step changes a map only as the step of the one thread that holds the
\* map's write guard: between two holders of the guard the map stays as it is.
C2_OneAtATime ==
  \A c \in Colls :
    Field(dcs, c)' # Field(dcs, c) =>
      \E t \in Threads :
        /\ lock[c].writer = t
        /\ pc[t] \in {"locked", "extend"}
        /\ Coll(op[t].name) = c

\* C2: operations on one collection are linearizable, in the order in which
\* they get the guard (a point between an operation's call and its return):
\* each returns the value, and leaves the map, of the operation done whole on
\* the map as the previous holder of the guard left it.
C2_Linearizable == []C2_AsIfAtomic /\ [][C2_OneAtATime]_vars

\* A list_pop that took a value is about to return while another thread is
\* blocked in a list_push on the same key.
C2_Witness ==
  \E t, u \in Threads :
    /\ pc[t] = "ret" /\ op[t].name = "list_pop" /\ result[t].tag = "Ok(Some)"
    /\ pc[u] = "wait" /\ op[u].name = "list_push" /\ op[u].key = op[t].key

\* The list at thread t's key when t got the guard (none: the empty list).
ListBefore(t) == IF op[t].key \in DOMAIN snap[t] THEN snap[t][op[t].key] ELSE <<>>

\* C3: list_push_multi is atomic with respect to the other writers of the
\* list: while it appends, the list is the list as it was acquired followed by
\* the values appended so far, in input order (no value of another thread
\* between them, none of them popped), and the length it returns is that of
\* the list with the whole block appended.
C3_PushMultiAtomic ==
  \A t \in Threads :
    op[t].name = "list_push_multi" =>
      /\ pc[t] = "extend" =>
           /\ op[t].key \in DOMAIN dcs.list_store
           /\ dcs.list_store[op[t].key] = ListBefore(t) \o SubSeq(op[t].values, 1, ext[t])
      /\ pc[t] = "ret" /\ result[t] # ErrPoison =>
           /\ dcs.list_store[op[t].key] = ListBefore(t) \o op[t].values
           /\ result[t] = OkLen(Len(ListBefore(t)) + Len(op[t].values))

\* A list_push_multi has appended the first of its two values to a list that
\* was not empty, while another thread is blocked in a list_pop on the key.
C3_Witness ==
  \E t, u \in Threads :
    /\ pc[t] = "extend" /\ ext[t] = 1 /\ Len(op[t].values) > 1
    /\ ListBefore(t) # <<>>
    /\ pc[u] = "wait" /\ op[u].name = "list_pop" /\ op[u].key = op[t].key

(* ------- scenario: list_push_multi against repeated list_push ----------- *)
(* One caller and two stores that start alike: the same pushes and pops    *)
(* are made on both, then list_push_multi of three values on the one and   *)
(* three list_push calls on the other, then the same pops on both.         *)

InitEquiv ==
  /\ dcs = NewDCS
  /\ lock = [c \in Colls |-> NewLock]
  /\ pc = [t \in Threads |-> "idle"]
  /\ op = [t \in Threads |-> NoOp]
  /\ result = [t \in Threads |-> NoResult]
  /\ ext = [t \in Threads |-> 0]
  /\ ncalls = 0
  /\ snap = [t \in Threads |-> Empty]
  /\ last_set = Empty
  /\ written = [c \in Colls |-> {}]
  /\ scen = [phase |-> "before", twin |-> NewDCS, key |-> "", ret |-> NoResult,
             twin_ret |-> NoResult, pops |-> 0]

\* What only the scenario reads is left alone.
EquivFrame == UNCHANGED <<lock, pc, op, result, ext, ncalls, snap, last_set, written>>

\* The same list_push on both stores, before the comparison.
EquivPush ==
  /\ scen.phase = "before"
  /\ \E k \in Keys, v \in Values :
       /\ list_len(dcs, k).ret.n < MaxLen
       /\ dcs' = list_push(dcs, k, v).dcs
       /\ scen' = [scen EXCEPT !.twin = list_push(@, k, v).dcs]
  /\ EquivFrame

\* The same list_pop on both stores, before the comparison.
EquivPopBefore ==
  /\ scen.phase = "before"
  /\ \E k \in Keys :
       /\ list_len(dcs, k).ret.n > 0
       /\ dcs' = list_pop(dcs, k).dcs
       /\ scen' = [scen EXCEPT !.twin = list_pop(@, k).dcs]
  /\ EquivFrame

\* list_push_multi(k, [v1, v2, v3]) on the one store; list_push(k, v1),
\* list_push(k, v2), list_push(k, v3) on the other.
EquivRun ==
  /\ scen.phase = "before"
  /\ \E k \in Keys, v1, v2, v3 \in Values :
       LET multi == list_push_multi(dcs, k, <<v1, v2, v3>>)
           first == list_push(scen.twin, k, v1)
           second == list_push(first.dcs, k, v2)
           third == list_push(second.dcs, k, v3)
       IN  /\ dcs' = multi.dcs
           /\ scen' = [scen EXCEPT !.phase = "after", !.twin = third.dcs, !.key = k,
                                   !.ret = multi.ret, !.twin_ret = third.ret]
  /\ EquivFrame

\* list_pop(k) on both stores, until both have returned None.
EquivPop ==
  /\ scen.phase = "after"
  /\ scen.ret # OkNone \/ scen.twin_ret # OkNone
  /\ LET mine == list_pop(dcs, scen.key)
         other == list_pop(scen.twin, scen.key)
     IN  /\ dcs' = mine.dcs
         /\ scen' = [scen EXCEPT !.twin = other.dcs, !.ret = mine.ret,
                                 !.twin_ret = other.ret, !.pops = @ + 1]
  /\ EquivFrame

NextEquiv == EquivPush \/ EquivPopBefore \/ EquivRun \/ EquivPop

SpecEquiv == InitEquiv /\ [][NextEquiv]_vars

\* (scen.ret and scen.twin_ret are what the latest call on each store returned.)
\* C4: from the same starting state and with no other caller,
\* list_push_multi(k, [v1, v2, v3]) and the calls list_push(k, v1),
\* list_push(k, v2), list_push(k, v3) agree: the length list_push_multi
\* returns is the length the last list_push returns, list_len is the same, and
\* each list_pop that follows returns the same on both.
C4_MultiIsThreePushes ==
  scen.phase = "after" =>
    /\ scen.ret = scen.twin_ret
    /\ list_len(dcs, scen.key).ret = list_len(scen.twin, scen.key).ret

\* The three values have been popped from both stores and a fourth list_pop
\* has taken a value that was in the list before.
C4_Witness ==
  /\ scen.phase = "after"
  /\ scen.pops = 4
  /\ scen.ret.tag = "Ok(Some)"

(* --------------------- scenario: push, then pop ------------------------- *)
(* One caller pushes the values of a script to an absent list, one call at *)
(* a time, and then pops once more than it pushed.                         *)

Solo == {1}

InitLifo ==
  /\ dcs = NewDCS
  /\ lock = [c \in Colls |-> NewLock]
  /\ pc = [t \in Solo |-> "idle"]
  /\ op = [t \in Solo |-> NoOp]
  /\ result = [t \in Solo |-> NoResult]
  /\ ext = [t \in Solo |-> 0]
  /\ ncalls = 0
  /\ snap = [t \in Solo |-> Empty]
  /\ last_set = Empty
  /\ written = [c \in Colls |-> {}]
  /\ \E k \in Keys, vs \in SeqsOver(Strings, MaxLen) :
       scen = [key |-> k, values |-> vs]

\* The caller's next call: the pushes in the script's order, then the pops.
CallLifo(t) ==
  /\ pc[t] = "idle"
  /\ ncalls < 2 * Len(scen.values) + 1
  /\ op' = [op EXCEPT ![t] =
              IF ncalls < Len(scen.values)
              THEN Op("list_push", scen.key, "", scen.values[ncalls + 1], 0, <<>>)
              ELSE Op("list_pop", scen.key, "", "", 0, <<>>)]
  /\ pc' = [pc EXCEPT ![t] = "wait"]
  /\ ncalls' = ncalls + 1
  /\ UNCHANGED <<dcs, lock, result, ext, snap, last_set, written, scen>>

NextLifo ==
  \E t \in Solo :
    CallLifo(t) \/ Acquire(t) \/ Run_list_push(t) \/ Run_list_pop(t) \/ Return(t)

SpecLifo == InitLifo /\ [][NextLifo]_vars

\* C5: after list_push of v1, .., vn in that order onto an absent key, the
\* j-th list_pop returns v(n+1-j), for j = 1..n, and the one after returns None.
C5_Lifo ==
  \A t \in Solo :
    pc[t] = "ret" /\ op[t].name = "list_pop" =>
      LET n == Len(scen.values)
          j == ncalls - n
      IN  result[t] = IF j <= n THEN OkSome(scen.values[n + 1 - j]) ELSE OkNone

\* Three values, not all the same, were pushed and the third list_pop returns
\* the first of them.
C5_Witness ==
  \E t \in Solo :
    /\ pc[t] = "ret" /\ op[t].name = "list_pop"
    /\ Len(scen.values) = 3 /\ ncalls = 6
    /\ scen.values[1] # scen.values[3]
    /\ result[t] = OkSome(scen.values[1])

(* -------------------- concurrent runs on sorted sets -------------------- *)

CallZset(t) ==
  /\ ncalls < MaxCalls
  /\ CallFrom(t, ZsetCalls(Keys, Values, Scores))

NextZset ==
  \E t \in Threads :
    \/ CallZset(t) \/ Acquire(t) \/ Return(t)
    \/ Run_zset_add(t) \/ Run_zset_score(t) \/ Run_zset_remove(t)

SpecZset == Init /\ [][NextZset]_vars

\* C6: iterating the stored entry of a sorted set visits the members in
\* ascending score order, and in member order among equal scores.
C6_ScoreOrder ==
  \A k \in DOMAIN dcs.zset_store :
    LET z == dcs.zset_store[k]
    IN  \A m, n \in DOMAIN z :
          m < n => \/ z[m][2] < z[n][2]
                   \/ z[m][2] = z[n][2] /\ StrLess(z[m][1], z[n][1])

(* ---------------------- runs with panicking threads --------------------- *)

\* Threads calling the fifteen operations concurrently; a thread may panic
\* while it holds a guard.
NextPoison ==
  \E t \in Threads :
    Call(t) \/ Acquire(t) \/ RunBody(t) \/ Return(t) \/ Panic(t) \/ DropError(t)

SpecPoison == Init /\ [][NextPoison]_vars

\* No operation gets past read() / write() on a poisoned lock: a thread in the
\* body of an operation, or about to return anything but the error, is on a
\* collection that is not poisoned.
C7_NoValueOncePoisoned ==
  \A t \in Threads :
    \/ pc[t] \in {"locked", "extend"}
    \/ pc[t] = "ret" /\ result[t] # ErrPoison
    => ~lock[Coll(op[t].name)].poisoned

\* A poisoned lock stays poisoned, and a waiting thread that gets a poisoned
\* lock goes on to return the error.
C7_PoisonLasts ==
  /\ \A c \in Colls : lock[c].poisoned => lock'[c].poisoned
  /\ \A t \in Threads :
       pc[t] = "wait" /\ pc'[t] # "wait" /\ lock[Coll(op[t].name)].poisoned =>
         pc'[t] = "ret" /\ result'[t] = ErrPoison

\* C7: once a collection's lock is poisoned, every operation on the
\* collection from then on, reader or writer, returns the error, never a
\* value, a count, a boolean or None.
C7_PoisonedFails == []C7_NoValueOncePoisoned /\ [][C7_PoisonLasts]_vars

\* A writer panicked holding the scalars' lock, and a get and a set called
\* after it are about to return, resp. have returned, the error.
C7_Witness ==
  /\ lock["store"].poisoned
  /\ \E t, u \in Threads :
       /\ pc[t] = "ret" /\ op[t].name = "get" /\ result[t] = ErrPoison
       /\ pc[u] = "panicked" /\ op[u].name = "set"

(* ------------------------- claims on all five --------------------------- *)

\* The thread that takes the step, and the operation it is in.
Steps(t) == pc'[t] # pc[t] \/ ext'[t] # ext[t]

StepOp(t) == IF pc[t] = "idle" THEN op'[t] ELSE op[t]

\* What the reads of collection c return for key k on the maps d.
Reads(d, c, k) ==
  CASE c = "store" -> <<get(d, k).ret>>
    [] c = "list_store" -> <<list_len(d, k).ret>>
    [] c = "hash_store" -> [f \in Values |-> hash_get(d, k, f).ret]
    [] c = "set_store" -> [v \in Values |-> set_is_member(d, k, v).ret]
    [] c = "zset_store" -> [v \in Values |-> zset_score(d, k, v).ret]

\* C8: a step of an operation on one collection leaves the maps of the other
\* four collections as they are, and with them what every read of any key
\* returns there.
C8_Step ==
  \A t \in Threads :
    Steps(t) =>
      \A c \in Colls \ {Coll(StepOp(t).name)} :
        /\ Field(dcs, c)' = Field(dcs, c)
        /\ \A k \in Keys : Reads(dcs', c, k) = Reads(dcs, c, k)

C8_SeparateNamespaces == [][C8_Step]_vars

\* The key k1 holds a scalar, a list and a hash at once, each written by its
\* own collection's operation.
C8_Witness ==
  /\ "k1" \in DOMAIN dcs.store
  /\ "k1" \in DOMAIN dcs.list_store
  /\ "k1" \in DOMAIN dcs.hash_store

\* C9: get(k) returns the value of the latest set on k, the empty string
\* included (and None when there was none), whatever other operations ran.
C9_GetReturnsLatestSet ==
  \A t \in Threads :
    pc[t] = "ret" /\ op[t].name = "get" /\ result[t] # ErrPoison =>
      result[t] = IF op[t].key \in DOMAIN last_set
                  THEN OkSome(last_set[op[t].key]) ELSE OkNone

\* A get returns the empty string while a set of another value on the same
\* key is blocked behind it.
C9_Witness ==
  \E t, u \in Threads :
    /\ pc[t] = "ret" /\ op[t].name = "get" /\ result[t] = OkSome("")
    /\ pc[u] = "wait" /\ op[u].name = "set" /\ op[u].key = op[t].key /\ op[u].value = "a"

\* What a read returns when there is nothing at its key.
Absent(name) ==
  CASE name \in {"get", "hash_get", "zset_score"} -> OkNone
    [] name = "list_len" -> OkLen(0)
    [] name = "set_is_member" -> OkBool(FALSE)

\* C10: on a key at which nothing was ever stored in the collection, get,
\* hash_get and zset_score return None, list_len returns 0 and set_is_member
\* returns false, whatever was done at other keys and in other collections.
C10_NeverWrittenIsAbsent ==
  \A t \in Threads :
    /\ pc[t] = "ret" /\ result[t] # ErrPoison
    /\ op[t].name \in {"get", "hash_get", "zset_score", "list_len", "set_is_member"}
    /\ op[t].key \notin written[Coll(op[t].name)]
    => result[t] = Absent(op[t].name)

\* A hash_get on a key never written returns None, the other key of the
\* hashes and the same key of the scalars having been written.
C10_Witness ==
  \E t \in Threads :
    /\ pc[t] = "ret" /\ op[t].name = "hash_get" /\ result[t] = OkNone
    /\ op[t].key \notin written["hash_store"]
    /\ written["hash_store"] # {}
    /\ op[t].key \in written["store"]

(* ------------------ scenarios: one caller and a script ------------------ *)
(* One caller, alone on the store. It first makes up to MaxPrefix calls of  *)
(* its choice, then the calls of a script, one after the other, each call   *)
(* going through the same steps as any call. scen.start keeps the maps as   *)
(* they were when the script began.                                         *)

InitScript ==
  /\ dcs = NewDCS
  /\ lock = [c \in Colls |-> NewLock]
  /\ pc = [t \in Solo |-> "idle"]
  /\ op = [t \in Solo |-> NoOp]
  /\ result = [t \in Solo |-> NoResult]
  /\ ext = [t \in Solo |-> 0]
  /\ ncalls = 0
  /\ snap = [t \in Solo |-> Empty]
  /\ last_set = Empty
  /\ written = [c \in Colls |-> {}]
  /\ scen = [script |-> <<>>, step |-> 0, start |-> NewDCS]

\* A call of the caller's choice among S, before the script.
CallBefore(t, S) ==
  /\ scen.script = <<>>
  /\ ncalls < MaxPrefix
  /\ CallFrom(t, S)

\* The caller starts on one of the scripts with the script's first call.
StartScript(t, scripts) ==
  /\ pc[t] = "idle"
  /\ scen.script = <<>>
  /\ \E s \in scripts :
       /\ scen' = [script |-> s, step |-> 1, start |-> dcs]
       /\ op' = [op EXCEPT ![t] = s[1]]
  /\ pc' = [pc EXCEPT ![t] = "wait"]
  /\ ncalls' = ncalls + 1
  /\ UNCHANGED <<dcs, lock, result, ext, snap, last_set, written>>

\* The script's next call.
CallScript(t) ==
  /\ pc[t] = "idle"
  /\ scen.script # <<>>
  /\ scen.step < Len(scen.script)
  /\ op' = [op EXCEPT ![t] = scen.script[scen.step + 1]]
  /\ scen' = [scen EXCEPT !.step = @ + 1]
  /\ pc' = [pc EXCEPT ![t] = "wait"]
  /\ ncalls' = ncalls + 1
  /\ UNCHANGED <<dcs, lock, result, ext, snap, last_set, written>>

\* The call of the script that thread t is returning from (0: none).
Returning(t) == IF pc[t] = "ret" /\ scen.script # <<>> THEN scen.step ELSE 0

(* --------------------- script: zset_add, twice ------------------------- *)

\* zset_add(k, s1, v); zset_add(k, s2, v); zset_score(k, v); zset_remove(k, v);
\* zset_score(k, v); zset_remove(k, v)
UpsertScript(k, v, s1, s2) ==
  <<Op("zset_add", k, "", v, s1, <<>>), Op("zset_add", k, "", v, s2, <<>>),
    Op("zset_score", k, "", v, 0, <<>>), Op("zset_remove", k, "", v, 0, <<>>),
    Op("zset_score", k, "", v, 0, <<>>), Op("zset_remove", k, "", v, 0, <<>>)>>

UpsertScripts == {UpsertScript(k, v, s1, s2) : k \in Keys, v \in Values, s1 \in Scores, s2 \in Scores}

NextUpsert ==
  \E t \in Solo :
    \/ CallBefore(t, ZsetCalls(Keys, Values, Scores))
    \/ StartScript(t, UpsertScripts) \/ CallScript(t)
    \/ Acquire(t) \/ Return(t)
    \/ Run_zset_add(t) \/ Run_zset_score(t) \/ Run_zset_remove(t)

SpecUpsert == InitScript /\ [][NextUpsert]_vars

\* In every sorted set, no member has two entries.
OneScorePerMember ==
  \A k \in DOMAIN dcs.zset_store :
    LET z == dcs.zset_store[k]
    IN  \A m, n \in DOMAIN z : z[m][1] = z[n][1] => m = n

\* C11: zset_add(k, s1, v) then zset_add(k, s2, v) make zset_score(k, v)
\* return s2; the zset_remove(k, v) that follows returns true, the zset_score
\* after it returns None and a second zset_remove returns false; and at all
\* times each member of a sorted set has exactly one score.
C11_Upsert ==
  /\ OneScorePerMember
  /\ \A t \in Solo :
       LET s2 == scen.script[2].score
       IN  /\ Returning(t) = 3 => result[t] = OkScore(s2)
           /\ Returning(t) = 4 => result[t] = OkBool(TRUE)
           /\ Returning(t) = 5 => result[t] = OkNone
           /\ Returning(t) = 6 => result[t] = OkBool(FALSE)

\* The second zset_remove returns false; the two scores of the script differ,
\* the member had the second one's before the script, and the sorted set
\* still holds another member.
C11_Witness ==
  \E t \in Solo :
    /\ Returning(t) = 6 /\ result[t] = OkBool(FALSE)
    /\ scen.script[1].score # scen.script[2].score
    /\ zset_score(scen.start, scen.script[1].key, scen.script[1].value).ret
         = OkScore(scen.script[2].score)
    /\ dcs.zset_store[scen.script[1].key] # <<>>

(* ---------------------- script: set_add, twice ------------------------- *)

\* set_add(k, v); set_add(k, v); set_is_member(k, v); set_remove(k, v);
\* set_remove(k, v); set_is_member(k, v)
AddTwiceScript(k, v) ==
  <<Op("set_add", k, "", v, 0, <<>>), Op("set_add", k, "", v, 0, <<>>),
    Op("set_is_member", k, "", v, 0, <<>>), Op("set_remove", k, "", v, 0, <<>>),
    Op("set_remove", k, "", v, 0, <<>>), Op("set_is_member", k, "", v, 0, <<>>)>>

AddTwiceScripts == {AddTwiceScript(k, v) : k \in Keys, v \in Values}

NextAddTwice ==
  \E t \in Solo :
    \/ CallBefore(t, SetCalls(Keys, Values))
    \/ StartScript(t, AddTwiceScripts) \/ CallScript(t)
    \/ Acquire(t) \/ Return(t)
    \/ Run_set_add(t) \/ Run_set_is_member(t) \/ Run_set_remove(t)

SpecAddTwice == InitScript /\ [][NextAddTwice]_vars

\* The members of the set at key k in the maps d (none when the key is absent).
Members(d, k) == IF k \in DOMAIN d.set_store THEN d.set_store[k] ELSE {}

\* C12: after set_add(k, v) twice, set_is_member(k, v) is true, the first
\* set_remove(k, v) returns true, the second returns false and set_is_member
\* is then false; the second set_add leaves the set as the first left it, and
\* throughout, the other values are members of the set exactly as before.
C12_AddIdempotent ==
  scen.script # <<>> =>
    LET k == scen.script[1].key
        v == scen.script[1].value
    IN  /\ Members(dcs, k) \ {v} = Members(scen.start, k) \ {v}
        /\ \A w \in Values \ {v} :
             set_is_member(dcs, k, w).ret = set_is_member(scen.start, k, w).ret
        /\ \A t \in Solo :
             /\ Returning(t) \in {1, 2} => Members(dcs, k) = Members(scen.start, k) \cup {v}
             /\ Returning(t) = 3 => result[t] = OkBool(TRUE)
             /\ Returning(t) = 4 => result[t] = OkBool(TRUE)
             /\ Returning(t) = 5 => result[t] = OkBool(FALSE)
             /\ Returning(t) = 6 => result[t] = OkBool(FALSE)

\* The last set_is_member returns false, for a value that was a member before
\* the script, of a set that still holds another value.
C12_Witness ==
  \E t \in Solo :
    /\ Returning(t) = 6 /\ result[t] = OkBool(FALSE)
    /\ scen.script[1].value \in Members(scen.start, scen.script[1].key)
    /\ Members(dcs, scen.script[1].key) # {}

(* --------------------- script: hash_set, hash_del ---------------------- *)

\* A field that no call sets.
FieldNeverSet == "b"

\* hash_set(k, f, v); hash_del(k, f); hash_get(k, f); hash_del(k, f);
\* hash_del(k, FieldNeverSet)
DelScript(k, f, v) ==
  <<Op("hash_set", k, f, v, 0, <<>>), Op("hash_del", k, f, "", 0, <<>>),
    Op("hash_get", k, f, "", 0, <<>>), Op("hash_del", k, f, "", 0, <<>>),
    Op("hash_del", k, FieldNeverSet, "", 0, <<>>)>>

DelScripts == {DelScript(k, f, v) : k \in Keys, f \in Values, v \in Values}

NextDel ==
  \E t \in Solo :
    \/ CallBefore(t, HashCalls(Keys, Values, Values))
    \/ StartScript(t, DelScripts) \/ CallScript(t)
    \/ Acquire(t) \/ Return(t)
    \/ Run_hash_set(t) \/ Run_hash_get(t) \/ Run_hash_del(t)

SpecDel == InitScript /\ [][NextDel]_vars

\* The hash at key k in the map of hashes m (no field when the key is absent).
HashAt(m, k) == IF k \in DOMAIN m THEN m[k] ELSE Empty

\* C13: hash_del(k, f) returns true exactly when f was a field of the hash at
\* k; it leaves the other fields of the hash with their values; on a field
\* that was not there, so on a never-set field and on a never-written key, it
\* returns false and leaves the hashes as they were. hash_set(k, f, v)
\* followed by hash_del(k, f) returns true, and hash_get(k, f) is then None.
C13_HashDel ==
  \A t \in Solo :
    /\ pc[t] = "ret" /\ op[t].name = "hash_del" =>
         LET k == op[t].key
             f == op[t].field
             before == HashAt(snap[t], k)
             after == HashAt(dcs.hash_store, k)
         IN  /\ result[t] = OkBool(f \in DOMAIN before)
             /\ \A g \in DOMAIN before \ {f} : g \in DOMAIN after /\ after[g] = before[g]
             /\ DOMAIN after \subseteq DOMAIN before \ {f}
             /\ f \notin DOMAIN before => dcs.hash_store = snap[t]
             /\ f = FieldNeverSet \/ k \notin written["hash_store"] =>
                  result[t] = OkBool(FALSE) /\ dcs.hash_store = snap[t]
    /\ Returning(t) = 2 => result[t] = OkBool(TRUE)
    /\ Returning(t) = 3 => result[t] = OkNone
    /\ Returning(t) = 4 => result[t] = OkBool(FALSE)
    /\ Returning(t) = 5 => result[t] = OkBool(FALSE)

\* The hash_del of the never-set field returns false, on a hash that has kept
\* another field from before the script.
C13_Witness ==
  \E t \in Solo :
    /\ Returning(t) = 5 /\ result[t] = OkBool(FALSE)
    /\ DOMAIN HashAt(dcs.hash_store, op[t].key) # {}
    /\ HashAt(dcs.hash_store, op[t].key) = HashAt(scen.start.hash_store, op[t].key)

(* --------------------------- list lengths ------------------------------ *)

\* What list_len(k) returns on the maps d, as a number.
LenAt(d, k) == list_len(d, k).ret.n

\* The values a step appends to the list at k: one by the body of a
\* list_push on k, one by a step of the extend of a list_push_multi on k.
Appended(k) ==
  Cardinality({t \in Threads :
    /\ op[t].key = k
    /\ \/ op[t].name = "list_push" /\ pc[t] = "locked" /\ pc'[t] = "ret"
       \/ op[t].name = "list_push_multi" /\ pc[t] = "extend" /\ ext'[t] = ext[t] + 1})

\* The list_pop calls on k that a step completes with a value.
Popped(k) ==
  Cardinality({t \in Threads :
    /\ op[t].key = k /\ op[t].name = "list_pop"
    /\ pc[t] = "locked" /\ pc'[t] = "ret" /\ result'[t].tag = "Ok(Some)"})

\* On a fresh store every list has length 0.
C14_StartsAtZero == \A k \in Keys : LenAt(dcs, k) = 0

\* list_push and list_push_multi return the length the list has right after
\* their append, which is its length at the guard's acquisition plus the
\* values given; list_len returns the length the list has.
C14_Returns ==
  \A t \in Threads :
    pc[t] = "ret" /\ result[t] # ErrPoison =>
      /\ op[t].name = "list_push" =>
           /\ result[t] = OkLen(Len(dcs.list_store[op[t].key]))
           /\ result[t] = OkLen(Len(ListBefore(t)) + 1)
      /\ op[t].name = "list_push_multi" =>
           /\ result[t] = OkLen(Len(dcs.list_store[op[t].key]))
           /\ result[t] = OkLen(Len(ListBefore(t)) + Len(op[t].values))
      /\ op[t].name = "list_len" =>
           result[t] = OkLen(IF op[t].key \in DOMAIN dcs.list_store
                             THEN Len(dcs.list_store[op[t].key]) ELSE 0)

\* A step changes what list_len(k) returns by the values it appends to k
\* less the list_pop on k it completes with a value.
C14_Counts ==
  \A k \in Keys : LenAt(dcs', k) = LenAt(dcs, k) + Appended(k) - Popped(k)

\* C14: list_push and list_push_multi return the length of the list right
\* after the append, and list_len(k) is at all times the number of values
\* appended to k less the number of list_pop calls on k that returned a
\* value: 0 at the start, and moved by every step by just what the step
\* appends and pops.
C14_LengthCounts == C14_StartsAtZero /\ []C14_Returns /\ [][C14_Counts]_vars

\* A list_pop is about to return a value of a list that held two, while a
\* list_len on the key waits.
C14_Witness ==
  \E t, u \in Threads :
    /\ pc[t] = "ret" /\ op[t].name = "list_pop" /\ result[t].tag = "Ok(Some)"
    /\ pc[u] = "wait" /\ op[u].name = "list_len" /\ op[u].key = op[t].key
    /\ LenAt(dcs, op[t].key) = 1

(* ------------------------------ the locks ------------------------------ *)

\* Thread t has a guard: it is between its read() / write() and the drop of
\* the guard (or of the error that carries it).
Holding(t) == pc[t] \in {"locked", "extend", "ret", "failed"}

\* Thread t has a guard of collection c; it has the write guard of c.
HoldsGuard(t, c) == Holding(t) /\ Coll(op[t].name) = c

HoldsWriteGuard(t, c) == HoldsGuard(t, c) /\ op[t].name \in Writers

\* While a thread has the write guard of a collection, no other thread has a
\* guard of it; the lock has the thread with a write guard as its writer and
\* the threads with read guards as its readers.
C15_Exclusion ==
  \A c \in Colls :
    /\ lock[c].writer # NoThread => lock[c].readers = {}
    /\ \A t, u \in Threads : t # u /\ HoldsWriteGuard(t, c) => ~HoldsGuard(u, c)
    /\ \A t \in Threads :
         /\ lock[c].writer = t <=> HoldsWriteGuard(t, c)
         /\ t \in lock[c].readers <=> HoldsGuard(t, c) /\ ~HoldsWriteGuard(t, c)

\* A thread runs a step of the body of a mutating operation as the writer of
\* the operation's lock, and the body of a read operation as one of the
\* lock's readers, no thread being its writer; a map changes only in a step
\* of a mutating operation.
C15_UnderGuard ==
  /\ \A t \in Threads :
       pc[t] \in {"locked", "extend"} /\ Steps(t) /\ pc'[t] # "panicked" =>
         LET c == Coll(op[t].name)
         IN  IF op[t].name \in Writers
             THEN lock[c].writer = t /\ lock[c].readers = {}
             ELSE t \in lock[c].readers /\ lock[c].writer = NoThread
                    /\ Field(dcs, c)' = Field(dcs, c)
  /\ \A c \in Colls :
       Field(dcs, c)' # Field(dcs, c) =>
         \E t \in Threads : Steps(t) /\ op[t].name \in Writers /\ lock[c].writer = t

\* C15: each collection's lock is a multiple-readers / single-writer lock: a
\* thread that holds the write lock is alone on the collection, and the ten
\* mutating operations touch the map only as the writer, the five read
\* operations only as readers.
C15_ReadersWriter == []C15_Exclusion /\ [][C15_UnderGuard]_vars

\* Two threads hold the read lock of the scalars at once, after a set.
C15_Witness ==
  /\ Cardinality(lock["store"].readers) = 2
  /\ \A t \in Threads : pc[t] = "locked" /\ op[t].name = "get"
  /\ DOMAIN dcs.store # {}

(* --------------- runs in which callers keep the errors ------------------ *)
(* An operation that finds its lock poisoned returns the PoisonError, and   *)
(* the guard in it, to its caller: the lock is held for as long as the      *)
(* caller keeps the error. Here a caller may make its next call with the    *)
(* error still in hand. The threads call set, get, list_push and list_len   *)
(* on one key; there are two more of them than in the other runs, and twice *)
(* the calls, so that two locks can be poisoned and two callers be left to  *)
(* meet on them.                                                            *)

Callers == 1 .. NumThreads + 2

KeptCalls ==
  ScalarCalls({"k1"}, {"a"})
    \cup {Op("list_push", "k1", "", "a", 0, <<>>), Op("list_len", "k1", "", "", 0, <<>>)}

\* The locks of which thread t has a guard.
LocksHeld(t) == {c \in Colls : lock[c].writer = t \/ t \in lock[c].readers}

InitKept ==
  /\ dcs = NewDCS
  /\ lock = [c \in Colls |-> NewLock]
  /\ pc = [t \in Callers |-> "idle"]
  /\ op = [t \in Callers |-> NoOp]
  /\ result = [t \in Callers |-> NoResult]
  /\ ext = [t \in Callers |-> 0]
  /\ ncalls = 0
  /\ snap = [t \in Callers |-> Empty]
  /\ last_set = Empty
  /\ written = [c \in Colls |-> {}]
  /\ scen = Empty

CallKept(t) ==
  /\ ncalls < 2 * MaxCalls
  /\ CallFrom(t, KeptCalls)

\* The caller keeps the PoisonError it was returned and calls an operation of
\* a collection of which it has no guard. (On a lock the thread itself holds,
\* write() and read() may block or panic: std leaves it open.)
CallKeepingError(t) ==
  /\ pc[t] = "failed"
  /\ ncalls < 2 * MaxCalls
  /\ \E o \in KeptCalls :
       /\ Coll(o.name) \notin LocksHeld(t)
       /\ op' = [op EXCEPT ![t] = o]
  /\ pc' = [pc EXCEPT ![t] = "wait"]
  /\ result' = [result EXCEPT ![t] = NoResult]
  /\ ncalls' = ncalls + 1
  /\ UNCHANGED <<dcs, lock, ext, snap, last_set, written, scen>>

NextKept ==
  \E t \in Callers :
    \/ CallKept(t) \/ CallKeepingError(t) \/ Acquire(t) \/ Return(t)
    \/ Run_set(t) \/ Run_get(t) \/ Run_list_push(t) \/ Run_list_len(t)
    \/ Panic(t) \/ DropError(t)

SpecKept == InitKept /\ [][NextKept]_vars

\* Thread t waits for a lock that thread u holds against it.
WaitsFor(t, u) ==
  /\ t # u
  /\ pc[t] = "wait"
  /\ LET c == Coll(op[t].name)
     IN  \/ lock[c].writer = u
         \/ op[t].name \in Writers /\ u \in lock[c].readers

\* The threads that t waits for, directly or through others, in at most n hops.
RECURSIVE WaitsOn(_, _)
WaitsOn(t, n) ==
  IF n = 0 THEN {}
  ELSE LET near == {u \in DOMAIN pc : WaitsFor(t, u)}
       IN  near \cup UNION {WaitsOn(u, n - 1) : u \in near}

\* No threads wait for each other's locks in a cycle.
NoWaitCycle == \A t \in DOMAIN pc : t \notin WaitsOn(t, Cardinality(DOMAIN pc))

\* C16: in every state each thread holds at most one of the five locks, and
\* no threads wait on each other's locks in a cycle.
C16_OneLockPerThread ==
  /\ \A t \in DOMAIN pc : Cardinality(LocksHeld(t)) <= 1
  /\ NoWaitCycle

(* ------------------- independence of the five locks -------------------- *)

\* Another thread has a guard that keeps thread t out of the collection of
\* its operation: any guard of it when t is to write, its write guard when t
\* is to read.
KeptOut(t) ==
  \E u \in Threads \ {t} :
    LET c == Coll(op[t].name)
    IN  IF op[t].name \in Writers THEN HoldsGuard(u, c) ELSE HoldsWriteGuard(u, c)

\* C17: operations on different collections never block each other: a thread
\* waiting in read() / write() can get its lock exactly when no other thread
\* has a guard of that same collection that excludes it, whatever guards are
\* held on the four other collections.
C17_LocksIndependent ==
  \A t \in Threads : pc[t] = "wait" => (ENABLED Acquire(t) <=> ~KeptOut(t))

\* A list_push and a hash_get are in their bodies at once, the one as the
\* writer of the lists' lock, the other as a reader of the hashes' lock.
C17_Witness ==
  \E t, u \in Threads :
    /\ pc[t] = "locked" /\ op[t].name = "list_push" /\ lock["list_store"].writer = t
    /\ pc[u] = "locked" /\ op[u].name = "hash_get" /\ u \in lock["hash_store"].readers

(* ------------------------- reads do not write -------------------------- *)

ReadOps == {"get", "list_len", "hash_get", "set_is_member", "zset_score"}

\* From the read lock's acquisition to the return, the map is as the read
\* operation found it.
C18_AsFound ==
  \A t \in Threads :
    pc[t] \in {"locked", "ret"} /\ op[t].name \in ReadOps /\ result[t] # ErrPoison =>
      MapNow(t) = snap[t]

\* No step of a read operation changes any of the five maps.
C18_Step ==
  \A t \in Threads : Steps(t) /\ StepOp(t).name \in ReadOps => dcs' = dcs

\* C18: get, list_len, hash_get, set_is_member and zset_score never mutate:
\* every step of theirs leaves all five maps as they are, also when the key,
\* field or member is absent, for which no entry is created.
C18_ReadsNeverMutate == []C18_AsFound /\ [][C18_Step]_vars

\* A list_len of an absent key returns 0 and the key is still absent, the
\* other key of the lists being present.
C18_Witness ==
  \E t \in Threads :
    /\ pc[t] = "ret" /\ op[t].name = "list_len" /\ result[t] = OkLen(0)
    /\ op[t].key \notin DOMAIN dcs.list_store
    /\ DOMAIN dcs.list_store # {}

(* --------------------------- keys are kept ----------------------------- *)

RemoveOps == {"list_pop", "hash_del", "set_remove", "zset_remove"}

\* The keys present in collection c of the maps d.
KeysOf(d, c) == DOMAIN Field(d, c)

\* Thread t is returning from a removal that took something out.
Removed(t) ==
  /\ pc[t] = "ret" /\ op[t].name \in RemoveOps
  /\ result[t] = OkBool(TRUE) \/ result[t].tag = "Ok(Some)"

\* A removal that took out the last element has left its key present, with
\* an empty container; a removal on a key that was not present has left it
\* not present.
C19_EmptyIsKept ==
  \A t \in Threads :
    /\ Removed(t) => op[t].key \in KeysOf(dcs, Coll(op[t].name))
    /\ pc[t] = "ret" /\ op[t].name \in RemoveOps /\ op[t].key \notin DOMAIN snap[t] =>
         /\ op[t].key \notin KeysOf(dcs, Coll(op[t].name))
         /\ MapNow(t) = snap[t]

\* No step takes a key out of a map; a step that puts a key in is a step of
\* set, list_push, list_push_multi, hash_set, set_add or zset_add on that key
\* in its own collection; a step of a removal leaves the keys as they are.
C19_Step ==
  \A c \in Colls :
    /\ KeysOf(dcs, c) \subseteq KeysOf(dcs', c)
    /\ \A k \in KeysOf(dcs', c) \ KeysOf(dcs, c) :
         \E t \in Threads :
           Steps(t) /\ op[t].name \in Storing /\ Coll(op[t].name) = c /\ op[t].key = k
    /\ \A t \in Threads :
         Steps(t) /\ StepOp(t).name \in RemoveOps => KeysOf(dcs', c) = KeysOf(dcs, c)

\* C19: entries are never destroyed and are created only by first writes: in
\* every collection the set of keys present never shrinks; list_pop,
\* hash_del, set_remove and zset_remove of the last element leave the key
\* present with an empty container, and on a key that is not present they
\* create no entry.
C19_KeysAreKept == []C19_EmptyIsKept /\ [][C19_Step]_vars

\* A list_pop has taken the one value of a list: the key is present, with
\* the empty list.
C19_Witness ==
  \E t \in Threads :
    /\ Removed(t) /\ op[t].name = "list_pop"
    /\ op[t].key \in DOMAIN dcs.list_store
    /\ dcs.list_store[op[t].key] = <<>>

(* ------------------------------ progress ------------------------------- *)

\* Threads calling the fifteen operations concurrently, on one key and with
\* one value, field, member and score.
ProgressCalls ==
  ScalarCalls({"k1"}, {"a"}) \cup ListCalls({"k1"}, {"a"}, {<<"a", "a">>})
    \cup HashCalls({"k1"}, {"a"}, {"a"}) \cup SetCalls({"k1"}, {"a"})
    \cup ZsetCalls({"k1"}, {"a"}, {1})

CallProgress(t) ==
  /\ ncalls < MaxCalls
  /\ CallFrom(t, ProgressCalls)

NextProgress == \E t \in Threads : CallProgress(t) \/ Acquire(t) \/ RunBody(t) \/ Return(t)

\* The runs in which every thread that can take a step of a body or return
\* does so in the end (the scheduler is fair to the threads), and in which a
\* thread that can again and again get the lock it waits for does get it in
\* the end (the lock is fair to its waiters).
FairSpec ==
  /\ Init /\ [][NextProgress]_vars
  /\ \A t \in Threads : WF_vars(RunBody(t) \/ Return(t))
  /\ \A t \in Threads : SF_vars(Acquire(t))

\* A thread that is in no call has no guard, and once every thread is out
\* of its call every lock is free.
C20_ReleasedOnReturn ==
  /\ \A t \in Threads : pc[t] = "idle" => LocksHeld(t) = {}
  /\ (\A t \in Threads : pc[t] = "idle") =>
       \A c \in Colls : lock[c].writer = NoThread /\ lock[c].readers = {}

\* C20: under fair scheduling of the threads and of the locks, and with no
\* lock poisoned, every call returns, with its lock released: a thread that
\* waits for a lock gets it, a thread with a guard returns, and a thread that
\* has returned holds no lock.
C20_EveryCallReturns ==
  /\ []C20_ReleasedOnReturn
  /\ \A t \in Threads : (pc[t] # "idle") ~> (pc[t] = "idle")

\* A list_push waits for the lists' lock while a list_len holds it, the list
\* holding two values.
C20_Witness ==
  \E t, u \in Threads :
    /\ pc[t] = "wait" /\ op[t].name = "list_push"
    /\ pc[u] = "locked" /\ op[u].name = "list_len"
    /\ \E k \in DOMAIN dcs.list_store : Len(dcs.list_store[k]) = 2

====
